---- MODULE Spec2Model ----
(***************************************************************************)
(* ClinicalCopilot backend (src/backend/app.py, src/backend/tools.py): the *)
(* session authorization gate, the EMR and pharmacy JSON stores and the    *)
(* HTTP handlers that read and write them.                                 *)
(*                                                                         *)
(* Strings whose order or equality the code depends on (record ids,        *)
(* ISO timestamps) are sequences of character codes, compared the way      *)
(* Python compares str: code point by code point, a proper prefix first.   *)
(***************************************************************************)
EXTENDS Integers, Sequences, FiniteSets, TLC

\* ---------------------------------------------------------------- bounds
Patients == {"P1", "P2"}
\* longest EMR collection an append is applied to
MaxRecs == 2
\* longest pharmacy collection an append is applied to
MaxOrders == 1
\* last whole second of the wall clock
MaxSec == 0
\* most runs of the pipeline made on one state
MaxRuns == 2
\* most review decisions applied to one state
MaxReviews == 2

VARIABLES
    authorized,   \* auth.py session mapping: the patient ids whose flag is true
    emr_file,     \* backend/emr_store.json
    pharm_file,   \* backend/pharmacy_orders.json
    clock,        \* wall clock read by datetime.now / datetime.utcnow
    resp,         \* HTTP response of the request handled by the last step
    h_emr_ids,    \* history: record ids the EMR store has returned so far
    h_rejected,   \* history: patient ids some store write was refused for
    req,          \* per worker thread: the request it is executing (SpecConc)
    dash,         \* the dashboard page: its script variables (SpecDash)
    state,        \* the AgentState record a pipeline run works on (SpecPipe)
    run           \* the pipeline run: next stage, stages executed, query sent

vars == <<authorized, emr_file, pharm_file, clock, resp, h_emr_ids, h_rejected, req,
          dash, state, run>>

\* the variables of a pipeline run
pipeline == <<state, run>>

\* ------------------------------------------------------------ Python str
\* Python's str <: lexicographic by code point, a proper prefix is smaller.
RECURSIVE StrLess(_, _)
StrLess(a, b) ==
    IF b = <<>> THEN FALSE
    ELSE IF a = <<>> THEN TRUE
    ELSE IF Head(a) # Head(b) THEN Head(a) < Head(b)
    ELSE StrLess(Tail(a), Tail(b))

\* str(n) for n >= 0: the decimal digits as character codes
RECURSIVE Dec(_)
Dec(n) == IF n < 10 THEN <<48 + n>> ELSE Dec(n \div 10) \o <<48 + (n % 10)>>

\* format(n, "0{w}d"): zero-padded to at least w digits, never truncated
RECURSIVE ZeroPad(_, _)
ZeroPad(s, w) == IF Len(s) >= w THEN s ELSE ZeroPad(<<48>> \o s, w)

\* ---------------------------------------------------------------- clock
\* An instant of the wall clock: whole second and microsecond. Only the
\* seconds field and what follows it are kept of the ISO text; the date,
\* hour and minute before it are a fixed-width prefix common to all.
Micros == {0, 500000}
Instants == [sec : 0..MaxSec, micro : Micros]

InstantLeq(a, b) == a.sec < b.sec \/ (a.sec = b.sec /\ a.micro <= b.micro)

\* datetime.isoformat(): "...:SS" when microsecond is 0, else "...:SS.ffffff"
IsoNaive(t) ==
    ZeroPad(Dec(t.sec), 2)
        \o (IF t.micro = 0 THEN <<>> ELSE <<46>> \o ZeroPad(Dec(t.micro), 6))

\* datetime.now(timezone.utc).isoformat(): the aware form ends with "+00:00"
IsoAware(t) == IsoNaive(t) \o <<43, 48, 48, 58, 48, 48>>

\* datetime.utcnow().isoformat() + "Z"
IsoZulu(t) == IsoNaive(t) \o <<90>>

\* int(datetime.utcnow().timestamp()): whole seconds since the epoch
EpochSeconds(t) == 1793951820 + t.sec

\* ------------------------------------------------------------ store file
\* A store file is missing, holds a JSON list (ok), or holds text json.load
\* rejects (partial: truncated by open("w"), or a dump that stopped part-way).
MissingFile == [st |-> "missing", recs |-> <<>>]
PartialFile == [st |-> "partial", recs |-> <<>>]
OkFile(records) == [st |-> "ok", recs |-> records]

\* if PATH.exists(): try: records = json.load(f) except Exception: records = []
LoadStore(file) == IF file.st = "ok" THEN file.recs ELSE <<>>

\* with PATH.open("w") as f: json.dump(records, f): the fault is where the
\* write stops: "none" (completed), "open" (open failed, file untouched),
\* "dump" (the file was truncated and the dump did not complete)
Faults == {"none", "open", "dump"}

\* the write as it would be with the file opened for appending: the new
\* record is added to whatever the file holds when the text is written
WriteStore_AppendMode(file, records, fault) ==
    CASE fault = "none" -> OkFile(LoadStore(file) \o <<records[Len(records)]>>)
      [] fault = "open" -> file
      [] OTHER          -> PartialFile

WriteStore(file, records, fault) ==
    CASE fault = "none" -> OkFile(records)
      [] fault = "open" -> file
      [] OTHER          -> PartialFile

\* ------------------------------------------------------- authorization
IsPatientAuthorized(m, pid) == pid \in m
AuthorizePatient(m, pid) == m \cup {pid}

\* ------------------------------------------------------------ responses
NoStr == <<>>
Response(op, pid, status, id, body, flag) ==
    [op |-> op, pid |-> pid, status |-> status, id |-> id, body |-> body, flag |-> flag]
NoResponse == Response("none", "none", "none", NoStr, <<>>, FALSE)

\* ---------------------------------------------------------------- records
\* "EMR_APPROVED_" + format(len(records) + 1, "05d")
ApprovedId(records) ==
    <<69, 77, 82, 95, 65, 80, 80, 82, 79, 86, 69, 68, 95>>
        \o ZeroPad(Dec(Len(records) + 1), 5)

\* "EMR-" + str(int(datetime.utcnow().timestamp()))
ToolEmrId(t) == <<69, 77, 82, 45>> \o Dec(EpochSeconds(t))

\* the record approve_emr builds from the request and the loaded collection
ApprovedRecord(records, pid, t) ==
    [emr_record_id      |-> ApprovedId(records),
     record_type        |-> "approved_consultation",
     patient_id         |-> pid,
     timestamp_utc      |-> IsoAware(t),
     approved_by_doctor |-> TRUE]

\* the record tool_update_emr builds from the payload; the payload carries
\* no record_type and no approval flag (written here as "payload", FALSE)
ToolEmrRecord(pid, t) ==
    [emr_record_id      |-> ToolEmrId(t),
     record_type        |-> "payload",
     patient_id         |-> pid,
     timestamp_utc      |-> IsoZulu(t),
     approved_by_doctor |-> FALSE]

\* pharmacy order id: store prefix + zero-padded (record count + 1)
PharmacyOrderId(orders) ==
    <<79, 82, 68, 95>> \o ZeroPad(Dec(Len(orders) + 1), 5)

NoEmrLink == <<>>
PharmacyOrder(orders, pid, link, t) ==
    [order_id      |-> PharmacyOrderId(orders),
     patient_id    |-> pid,
     timestamp_utc |-> IsoAware(t),
     emr_record_id |-> link,
     status        |-> "sent"]

\* ------------------------------------------------------------------ query
\* for rec in all_records: if rec.get("patient_id") == patient_id: append
RECURSIVE FilterByPatient(_, _)
FilterByPatient(records, pid) ==
    IF records = <<>> THEN <<>>
    ELSE IF Head(records).patient_id = pid
         THEN <<Head(records)>> \o FilterByPatient(Tail(records), pid)
         ELSE FilterByPatient(Tail(records), pid)

\* _get_ts: r.get("timestamp_utc") or r.get("timestamp") or ""
GetTs(r) == r.timestamp_utc

\* the place of x in a list sorted by key descending: after every element
\* whose key is not smaller (list.sort is stable, also with reverse=True)
RECURSIVE InsertDesc(_, _)
InsertDesc(sorted, x) ==
    IF sorted = <<>> THEN <<x>>
    ELSE IF StrLess(GetTs(Head(sorted)), GetTs(x))
         THEN <<x>> \o sorted
         ELSE <<Head(sorted)>> \o InsertDesc(Tail(sorted), x)

\* records.sort(key=_get_ts, reverse=True)
RECURSIVE SortDesc(_)
SortDesc(records) ==
    IF records = <<>> THEN <<>>
    ELSE InsertDesc(SortDesc(SubSeq(records, 1, Len(records) - 1)),
                    records[Len(records)])

\* the body get_emr / get_pharmacy_orders return for a store file
QueryStore(file, pid) == SortDesc(FilterByPatient(LoadStore(file), pid))

\* ------------------------------------------------------------------ text
\* str.lower() / str.upper() on the letters A-Z / a-z
Lower(s) == [i \in DOMAIN s |-> IF s[i] >= 65 /\ s[i] <= 90 THEN s[i] + 32 ELSE s[i]]
Upper(s) == [i \in DOMAIN s |-> IF s[i] >= 97 /\ s[i] <= 122 THEN s[i] - 32 ELSE s[i]]

\* sub in text
Contains(text, sub) ==
    \E i \in 0..(Len(text) - Len(sub)) : SubSeq(text, i + 1, i + Len(sub)) = sub

\* sep.join(items)
RECURSIVE Join(_, _)
Join(sep, items) ==
    IF items = <<>> THEN <<>>
    ELSE IF Len(items) = 1 THEN items[1]
    ELSE items[1] \o sep \o Join(sep, Tail(items))

\* x in items, for a list
InList(x, items) == \E i \in DOMAIN items : items[i] = x

\* list(dict.fromkeys(items)): the first occurrence of each, in order
RECURSIVE Dedupe(_)
Dedupe(items) ==
    IF items = <<>> THEN <<>>
    ELSE LET front == Dedupe(SubSeq(items, 1, Len(items) - 1))
             last  == items[Len(items)]
         IN IF InList(last, front) THEN front ELSE Append(front, last)

\* "Suggest initial basic tests for patient with: "
QueryHead ==
    <<83, 117, 103, 103, 101, 115, 116, 32, 105, 110, 105, 116, 105, 97, 108, 32, 98, 97, 115,
    105, 99, 32, 116, 101, 115, 116, 115, 32, 102, 111, 114, 32, 112, 97, 116, 105, 101, 110,
    116, 32, 119, 105, 116, 104, 58, 32>>
\* ". Note: "
QueryNote == <<46, 32, 78, 111, 116, 101, 58, 32>>
\* "unspecified symptoms"
UnspecifiedSymptoms ==
    <<117, 110, 115, 112, 101, 99, 105, 102, 105, 101, 100, 32, 115, 121, 109, 112, 116, 111,
    109, 115>>
\* "no symptoms text"
NoSymptomsText == <<110, 111, 32, 115, 121, 109, 112, 116, 111, 109, 115, 32, 116, 101, 120, 116>>
\* ", "
CommaSpace == <<44, 32>>
\* ""
T_empty == <<>>
\* "Patient reports chest pain and fever for two days."
T_chest_fever ==
    <<80, 97, 116, 105, 101, 110, 116, 32, 114, 101, 112, 111, 114, 116, 115, 32, 99, 104, 101,
    115, 116, 32, 112, 97, 105, 110, 32, 97, 110, 100, 32, 102, 101, 118, 101, 114, 32, 102,
    111, 114, 32, 116, 119, 111, 32, 100, 97, 121, 115, 46>>
\* "Fever since Monday, chest pain since this morning."
T_fever_chest ==
    <<70, 101, 118, 101, 114, 32, 115, 105, 110, 99, 101, 32, 77, 111, 110, 100, 97, 121, 44,
    32, 99, 104, 101, 115, 116, 32, 112, 97, 105, 110, 32, 115, 105, 110, 99, 101, 32, 116, 104,
    105, 115, 32, 109, 111, 114, 110, 105, 110, 103, 46>>
\* "Coughing at night; cough, cough and tightness in chest, chest pain."
T_coughing ==
    <<67, 111, 117, 103, 104, 105, 110, 103, 32, 97, 116, 32, 110, 105, 103, 104, 116, 59, 32,
    99, 111, 117, 103, 104, 44, 32, 99, 111, 117, 103, 104, 32, 97, 110, 100, 32, 116, 105, 103,
    104, 116, 110, 101, 115, 115, 32, 105, 110, 32, 99, 104, 101, 115, 116, 44, 32, 99, 104,
    101, 115, 116, 32, 112, 97, 105, 110, 46>>
\* "Routine visit, no complaints."
T_routine ==
    <<82, 111, 117, 116, 105, 110, 101, 32, 118, 105, 115, 105, 116, 44, 32, 110, 111, 32, 99,
    111, 109, 112, 108, 97, 105, 110, 116, 115, 46>>
\* "Acute chest pain requires urgent ECG."
H_ecg ==
    <<65, 99, 117, 116, 101, 32, 99, 104, 101, 115, 116, 32, 112, 97, 105, 110, 32, 114, 101,
    113, 117, 105, 114, 101, 115, 32, 117, 114, 103, 101, 110, 116, 32, 69, 67, 71, 46>>
\* "Fever of unknown origin needs CBC with differential."
H_cbc ==
    <<70, 101, 118, 101, 114, 32, 111, 102, 32, 117, 110, 107, 110, 111, 119, 110, 32, 111, 114,
    105, 103, 105, 110, 32, 110, 101, 101, 100, 115, 32, 67, 66, 67, 32, 119, 105, 116, 104, 32,
    100, 105, 102, 102, 101, 114, 101, 110, 116, 105, 97, 108, 46>>
\* "Acute chest pain requires urgent ECG, serial cardiac troponins and CBC."
H_ecg_cbc ==
    <<65, 99, 117, 116, 101, 32, 99, 104, 101, 115, 116, 32, 112, 97, 105, 110, 32, 114, 101,
    113, 117, 105, 114, 101, 115, 32, 117, 114, 103, 101, 110, 116, 32, 69, 67, 71, 44, 32, 115,
    101, 114, 105, 97, 108, 32, 99, 97, 114, 100, 105, 97, 99, 32, 116, 114, 111, 112, 111, 110,
    105, 110, 115, 32, 97, 110, 100, 32, 67, 66, 67, 46>>
\* "Chronic cough may require chest X-ray and spirometry."
H_xray ==
    <<67, 104, 114, 111, 110, 105, 99, 32, 99, 111, 117, 103, 104, 32, 109, 97, 121, 32, 114,
    101, 113, 117, 105, 114, 101, 32, 99, 104, 101, 115, 116, 32, 88, 45, 114, 97, 121, 32, 97,
    110, 100, 32, 115, 112, 105, 114, 111, 109, 101, 116, 114, 121, 46>>

\* the canonical labels
\* "chest pain"
L_chest_pain == <<99, 104, 101, 115, 116, 32, 112, 97, 105, 110>>
\* "shortness of breath"
L_shortness_of_breath ==
    <<115, 104, 111, 114, 116, 110, 101, 115, 115, 32, 111, 102, 32, 98, 114, 101, 97, 116, 104>>
\* "fever"
L_fever == <<102, 101, 118, 101, 114>>
\* "cough"
L_cough == <<99, 111, 117, 103, 104>>
\* "headache"
L_headache == <<104, 101, 97, 100, 97, 99, 104, 101>>
\* "vomiting"
L_vomiting == <<118, 111, 109, 105, 116, 105, 110, 103>>
\* "abdominal pain"
L_abdominal_pain == <<97, 98, 100, 111, 109, 105, 110, 97, 108, 32, 112, 97, 105, 110>>
\* "diabetes"
L_diabetes == <<100, 105, 97, 98, 101, 116, 101, 115>>
\* "hypertension"
L_hypertension == <<104, 121, 112, 101, 114, 116, 101, 110, 115, 105, 111, 110>>

\* SYMPTOM_KEYWORDS: phrase -> canonical label, in the order the dict lists them
SYMPTOM_KEYWORDS ==
    <<
       \* "chest pain"
       <<<<99, 104, 101, 115, 116, 32, 112, 97, 105, 110>>,
         L_chest_pain>>,
       \* "heaviness in chest"
       <<<<104, 101, 97, 118, 105, 110, 101, 115, 115, 32, 105, 110, 32, 99, 104, 101, 115, 116>>,
         L_chest_pain>>,
       \* "tightness in chest"
       <<<<116, 105, 103, 104, 116, 110, 101, 115, 115, 32, 105, 110, 32, 99, 104, 101, 115,
          116>>,
         L_chest_pain>>,
       \* "pressure in chest"
       <<<<112, 114, 101, 115, 115, 117, 114, 101, 32, 105, 110, 32, 99, 104, 101, 115, 116>>,
         L_chest_pain>>,
       \* "shortness of breath"
       <<<<115, 104, 111, 114, 116, 110, 101, 115, 115, 32, 111, 102, 32, 98, 114, 101, 97, 116,
          104>>,
         L_shortness_of_breath>>,
       \* "breathlessness"
       <<<<98, 114, 101, 97, 116, 104, 108, 101, 115, 115, 110, 101, 115, 115>>,
         L_shortness_of_breath>>,
       \* "breathless"
       <<<<98, 114, 101, 97, 116, 104, 108, 101, 115, 115>>,
         L_shortness_of_breath>>,
       \* "difficulty breathing"
       <<<<100, 105, 102, 102, 105, 99, 117, 108, 116, 121, 32, 98, 114, 101, 97, 116, 104, 105,
          110, 103>>,
         L_shortness_of_breath>>,
       \* "fever"
       <<<<102, 101, 118, 101, 114>>,
         L_fever>>,
       \* "high temperature"
       <<<<104, 105, 103, 104, 32, 116, 101, 109, 112, 101, 114, 97, 116, 117, 114, 101>>,
         L_fever>>,
       \* "raised temperature"
       <<<<114, 97, 105, 115, 101, 100, 32, 116, 101, 109, 112, 101, 114, 97, 116, 117, 114,
          101>>,
         L_fever>>,
       \* "cough"
       <<<<99, 111, 117, 103, 104>>,
         L_cough>>,
       \* "coughing"
       <<<<99, 111, 117, 103, 104, 105, 110, 103>>,
         L_cough>>,
       \* "headache"
       <<<<104, 101, 97, 100, 97, 99, 104, 101>>,
         L_headache>>,
       \* "pain in head"
       <<<<112, 97, 105, 110, 32, 105, 110, 32, 104, 101, 97, 100>>,
         L_headache>>,
       \* "migraine"
       <<<<109, 105, 103, 114, 97, 105, 110, 101>>,
         L_headache>>,
       \* "vomiting"
       <<<<118, 111, 109, 105, 116, 105, 110, 103>>,
         L_vomiting>>,
       \* "vomit"
       <<<<118, 111, 109, 105, 116>>,
         L_vomiting>>,
       \* "threw up"
       <<<<116, 104, 114, 101, 119, 32, 117, 112>>,
         L_vomiting>>,
       \* "nausea"
       <<<<110, 97, 117, 115, 101, 97>>,
         L_vomiting>>,
       \* "feeling like vomiting"
       <<<<102, 101, 101, 108, 105, 110, 103, 32, 108, 105, 107, 101, 32, 118, 111, 109, 105,
          116, 105, 110, 103>>,
         L_vomiting>>,
       \* "abdominal pain"
       <<<<97, 98, 100, 111, 109, 105, 110, 97, 108, 32, 112, 97, 105, 110>>,
         L_abdominal_pain>>,
       \* "stomach pain"
       <<<<115, 116, 111, 109, 97, 99, 104, 32, 112, 97, 105, 110>>,
         L_abdominal_pain>>,
       \* "pain in stomach"
       <<<<112, 97, 105, 110, 32, 105, 110, 32, 115, 116, 111, 109, 97, 99, 104>>,
         L_abdominal_pain>>,
       \* "tummy pain"
       <<<<116, 117, 109, 109, 121, 32, 112, 97, 105, 110>>,
         L_abdominal_pain>>,
       \* "gastric pain"
       <<<<103, 97, 115, 116, 114, 105, 99, 32, 112, 97, 105, 110>>,
         L_abdominal_pain>>,
       \* "diabetes"
       <<<<100, 105, 97, 98, 101, 116, 101, 115>>,
         L_diabetes>>,
       \* "type 2 diabetes"
       <<<<116, 121, 112, 101, 32, 50, 32, 100, 105, 97, 98, 101, 116, 101, 115>>,
         L_diabetes>>,
       \* "type ii diabetes"
       <<<<116, 121, 112, 101, 32, 105, 105, 32, 100, 105, 97, 98, 101, 116, 101, 115>>,
         L_diabetes>>,
       \* "high blood sugar"
       <<<<104, 105, 103, 104, 32, 98, 108, 111, 111, 100, 32, 115, 117, 103, 97, 114>>,
         L_diabetes>>,
       \* "sugar patient"
       <<<<115, 117, 103, 97, 114, 32, 112, 97, 116, 105, 101, 110, 116>>,
         L_diabetes>>,
       \* "hypertension"
       <<<<104, 121, 112, 101, 114, 116, 101, 110, 115, 105, 111, 110>>,
         L_hypertension>>,
       \* "high blood pressure"
       <<<<104, 105, 103, 104, 32, 98, 108, 111, 111, 100, 32, 112, 114, 101, 115, 115, 117, 114,
          101>>,
         L_hypertension>>,
       \* "bp is high"
       <<<<98, 112, 32, 105, 115, 32, 104, 105, 103, 104>>,
         L_hypertension>>
    >>

\* ------------------------------------------------------------ AgentState
\* the fields of AgentState and their defaults
EmptyState ==
    [patient_id |-> "none", raw_transcript |-> <<>>, note_summary |-> <<>>,
     symptoms |-> <<>>, suggested_tests |-> <<>>, guideline_hits |-> <<>>,
     draft_prescription |-> <<>>, safety_flags |-> <<>>, executed_actions |-> <<>>,
     audit_log |-> <<>>]
NoState == EmptyState

\* a pipeline run: the stage to execute next, the stages that have finished,
\* the query the planner sent, how the retrieval call ended (rag) and the hits
\* it returned, the number of runs made on the state, and the state as the
\* previous run returned it
NoRun ==
    [stage |-> "idle", stages |-> <<>>, query |-> <<>>, rag |-> "none", hits |-> <<>>,
     n |-> 0, prev |-> NoState]

\* the dashboard as loaded: <input id="patientIdInput" value="P001" />
DefaultPatient == "P1"
\* json.state as the page keeps it in currentState: the patient the run was
\* made for and the texts the run produced, kept as the run they come from
WorkflowState(pid) ==
    [patient_id |-> pid, note_summary |-> <<"note", pid>>, symptoms |-> <<"symptoms", pid>>,
     draft_prescription |-> <<"rx", pid>>]
\* let currentState = null
NoWorkflowState == WorkflowState("none")
\* no request of the kind is waiting for its answer
NoAnswer == [st |-> "none", id |-> <<>>, state |-> NoWorkflowState]
NoDashboard ==
    [pid |-> DefaultPatient, patientVerified |-> FALSE, currentSlide |-> 1,
     currentState |-> NoWorkflowState, lastApprovedEmrId |-> <<>>,
     verify |-> "none", workflow |-> NoAnswer, approve |-> NoAnswer, changed |-> {},
     saved |-> {}]

\* AgentState(patient_id=..., raw_transcript=note_text, note_summary=note_text)
NewState(pid, text) ==
    [EmptyState EXCEPT !.patient_id = pid, !.raw_transcript = text, !.note_summary = text]

\* an entry of audit_log: the node that wrote it and the list it names
AuditEntry(node, value) == [node |-> node, value |-> value]

\* state.note_summary or state.raw_transcript or default
WorkingText(s, default) ==
    IF s.note_summary # <<>> THEN s.note_summary
    ELSE IF s.raw_transcript # <<>> THEN s.raw_transcript
    ELSE default

\* ---------------------------------------------------------- symptom_node
\* for phrase, canonical in SYMPTOM_KEYWORDS.items(): if phrase in text:
\*     found.append(canonical)
RECURSIVE FoundSymptoms(_, _)
FoundSymptoms(table, text) ==
    IF table = <<>> THEN <<>>
    ELSE (IF Contains(text, Head(table)[1]) THEN <<Head(table)[2]>> ELSE <<>>)
             \o FoundSymptoms(Tail(table), text)

\* symptom_node without the merge through dict.fromkeys: state.symptoms + found
SymptomNode_NoDedupe(s) ==
    LET text   == Lower(WorkingText(s, <<>>))
        merged == s.symptoms \o FoundSymptoms(SYMPTOM_KEYWORDS, text)
    IN [s EXCEPT !.symptoms = merged,
                 !.audit_log = Append(s.audit_log, AuditEntry("symptom", merged))]

\* symptom_node that logs only when it found something
SymptomNode_QuietNoop(s) ==
    LET text   == Lower(WorkingText(s, <<>>))
        found  == FoundSymptoms(SYMPTOM_KEYWORDS, text)
        merged == Dedupe(s.symptoms \o found)
    IN [s EXCEPT !.symptoms = merged,
                 !.audit_log = IF found = <<>> THEN s.audit_log
                               ELSE Append(s.audit_log, AuditEntry("symptom", merged))]

\* symptom_node that assigns what it found in this text: list(dict.fromkeys(found))
SymptomNode_FoundOnly(s) ==
    LET text   == Lower(WorkingText(s, <<>>))
        merged == Dedupe(FoundSymptoms(SYMPTOM_KEYWORDS, text))
    IN [s EXCEPT !.symptoms = merged,
                 !.audit_log = Append(s.audit_log, AuditEntry("symptom", merged))]

SymptomNode(s) ==
    LET text   == Lower(WorkingText(s, <<>>))
        found  == FoundSymptoms(SYMPTOM_KEYWORDS, text)
        merged == Dedupe(s.symptoms \o found)
    IN [s EXCEPT !.symptoms = merged,
                 !.audit_log = Append(s.audit_log, AuditEntry("symptom", merged))]

\* ---------------------------------------------------------- planner_node
\* top_k of rag_query_tool(query, top_k=3)
TopK == 3

\* a hit of rag_query_tool: payload.get("text") is the text, or None
Hit(text) == [has_text |-> TRUE, text |-> text]
HitNoText == [has_text |-> FALSE, text |-> <<>>]

\* what the search of the collection can give: up to top_k results, whose
\* payload may carry no "text"
RagResults ==
    {r \in {<<>>,
             <<Hit(H_ecg), Hit(H_cbc)>>,
             <<Hit(H_ecg_cbc)>>,
             <<Hit(H_cbc), Hit(H_xray), Hit(H_ecg_cbc)>>,
             <<Hit(H_xray)>>,
             <<Hit(H_ecg), HitNoText>>} : Len(r) <= TopK}

\* how a call of rag_query_tool ends inside its try block: the search
\* returned and every result was formatted ("hits"), the client has no
\* search() ("no_search"), or encode, search or the formatting of a result
\* raised ("exception")
RagOutcomes == {"hits", "no_search", "exception"}

\* rag_query_tool whose except clause returns what it had formatted so far
RagQueryTool_Partial(outcome, results) ==
    IF outcome = "no_search" THEN <<>> ELSE results

\* rag_query_tool(query, top_k): results is what the search gave
RagQueryTool(outcome, results) ==
    IF outcome = "hits" THEN results ELSE <<>>

\* the query planner_node sends
PlannerQuery(s) ==
    LET note          == WorkingText(s, NoSymptomsText)
        symptoms_text == IF s.symptoms # <<>> THEN Join(CommaSpace, s.symptoms)
                         ELSE UnspecifiedSymptoms
    IN QueryHead \o symptoms_text \o QueryNote \o note

\* ["cbc", "ecg", "urine", "lipid"]
Candidates == <<<<99, 98, 99>>, <<101, 99, 103>>, <<117, 114, 105, 110, 101>>,
                <<108, 105, 112, 105, 100>>>>

\* the inner loop over the candidates for one hit text
RECURSIVE ScanCandidates(_, _, _)
ScanCandidates(text, candidates, tests) ==
    IF candidates = <<>> THEN tests
    ELSE LET c == Head(candidates)
         IN ScanCandidates(text, Tail(candidates),
                IF Contains(text, c) /\ ~InList(Upper(c), tests)
                   THEN Append(tests, Upper(c)) ELSE tests)

\* the outer loop over the hits
RECURSIVE ScanHits(_, _)
ScanHits(hits, tests) ==
    IF hits = <<>> THEN tests
    ELSE ScanHits(Tail(hits), ScanCandidates(Lower(Head(hits).text), Candidates, tests))

\* h["text"].lower() raises AttributeError on None
PlannerRaises(hits) == \E i \in DOMAIN hits : ~hits[i].has_text

\* planner_node that extends the lists of the state instead of replacing them
PlannerNode_Accumulate(s, hits) ==
    LET suggested_tests == s.suggested_tests \o ScanHits(hits, <<>>)
    IN [s EXCEPT !.guideline_hits = s.guideline_hits \o hits,
                 !.suggested_tests = suggested_tests,
                 !.audit_log = Append(s.audit_log, AuditEntry("planner", suggested_tests))]

\* planner_node that keeps what the state held when this run found nothing:
\* hits or state.guideline_hits, suggested_tests or state.suggested_tests
PlannerNode_KeepOnEmpty(s, hits) ==
    LET found           == ScanHits(hits, <<>>)
        suggested_tests == IF found = <<>> THEN s.suggested_tests ELSE found
    IN [s EXCEPT !.guideline_hits = IF hits = <<>> THEN s.guideline_hits ELSE hits,
                 !.suggested_tests = suggested_tests,
                 !.audit_log = Append(s.audit_log, AuditEntry("planner", suggested_tests))]

\* planner_node that assigns its entry to audit_log instead of appending it
PlannerNode_FreshLog(s, hits) ==
    LET suggested_tests == ScanHits(hits, <<>>)
    IN [s EXCEPT !.guideline_hits = hits,
                 !.suggested_tests = suggested_tests,
                 !.audit_log = <<AuditEntry("planner", suggested_tests)>>]

\* planner_node for hits that all carry a text
PlannerNode(s, hits) ==
    LET suggested_tests == ScanHits(hits, <<>>)
    IN [s EXCEPT !.guideline_hits = hits,
                 !.suggested_tests = suggested_tests,
                 !.audit_log = Append(s.audit_log, AuditEntry("planner", suggested_tests))]

\* ------------------------------------------- prescription and safety stages
\* the draft is a template filled from symptoms and suggested_tests
DraftTemplate(s) == <<[symptoms |-> s.symptoms, tests |-> s.suggested_tests]>>

PrescriptionNode(s) ==
    [s EXCEPT !.draft_prescription = DraftTemplate(s),
              !.audit_log = Append(s.audit_log, AuditEntry("prescription", DraftTemplate(s)))]

\* the warnings the rule set can raise on a state: none, or one
SafetyWarnings == {<<>>, <<"warning">>}

SafetyNode(s, flags) ==
    [s EXCEPT !.safety_flags = s.safety_flags \o flags,
              !.audit_log = Append(s.audit_log, AuditEntry("safety", flags))]

\* ------------------------------------------------------- Human-Review-Gate
\* the doctor_comments of a review request
Comments == {"ok"}

\* the decision record a review leaves in executed_actions
Decision(approved, comments) == [approved |-> approved, comments |-> comments]

\* hil_apply_decision(state, approved, doctor_comments): one decision record,
\* one audit entry; a second call appends a second of each
HilApplyDecision(s, approved, comments) ==
    [s EXCEPT !.executed_actions = Append(s.executed_actions, Decision(approved, comments)),
              !.audit_log = Append(s.audit_log,
                                   AuditEntry("review", Decision(approved, comments)))]


\* ------------------------------------------------------------------- Init
Workers == {1, 2}
IdleRequest ==
    [pc |-> "idle", op |-> "none", pid |-> "none", now |-> [sec |-> 0, micro |-> 0],
     base |-> MissingFile, records |-> <<>>, id |-> NoStr, status |-> "none",
     body |-> <<>>]

Init ==
    /\ authorized = {}
    /\ emr_file = MissingFile
    /\ pharm_file = MissingFile
    /\ clock = [sec |-> 0, micro |-> 0]
    /\ resp = NoResponse
    /\ h_emr_ids = {}
    /\ h_rejected = {}
    /\ req = [w \in Workers |-> IdleRequest]
    /\ dash = NoDashboard
    /\ state = NoState
    /\ run = NoRun

\* ------------------------------------------------- the handlers, one call each
\* time passes between requests
Tick ==
    /\ \E t \in Instants :
          /\ t # clock
          /\ InstantLeq(clock, t)
          /\ clock' = t
    /\ resp' = NoResponse
    /\ UNCHANGED <<dash, pipeline, authorized, emr_file, pharm_file, h_emr_ids, h_rejected, req>>

\* POST /verify-patient-face: image is what the upload decodes to
Images == {"undecodable", "cascade_missing", "no_face", "face"}

\* the "reason" of the answer, one per return statement
DecodeFailed == "Failed to decode image."
VerifyReason(image) ==
    CASE image = "undecodable"     -> DecodeFailed
      [] image = "cascade_missing" -> "Cascade missing, demo mode: auto-authorized patient."
      [] image = "no_face"         ->
             "No clear face detected, but demo override: patient authorized."
      [] OTHER                     -> "Face detected and patient authorized."

\* verify_patient_face with the strict return of line 1434 in place of
\* the demo override: no face detected, no authorization
VerifyPatientFace_Strict(pid, image) ==
    /\ IF image \in {"undecodable", "no_face"}
          THEN /\ authorized' = authorized
               /\ resp' = Response("verify_patient_face", pid, "ok", NoStr,
                                   <<IF image = "no_face" THEN "No face detected in frame."
                                     ELSE DecodeFailed>>, FALSE)
          ELSE /\ authorized' = AuthorizePatient(authorized, pid)
               /\ resp' = Response("verify_patient_face", pid, "ok", NoStr,
                                   <<VerifyReason(image)>>, TRUE)
    /\ UNCHANGED <<dash, pipeline, emr_file, pharm_file, clock, h_emr_ids, h_rejected, req>>

\* verify_patient_face as it would be with one verified identity per session:
\* authorizing pid drops every other identity
VerifyPatientFace_Exclusive(pid, image) ==
    /\ IF image = "undecodable"
          THEN /\ authorized' = authorized
               /\ resp' = Response("verify_patient_face", pid, "ok", NoStr, <<VerifyReason(image)>>, FALSE)
          ELSE /\ authorized' = {pid}
               /\ resp' = Response("verify_patient_face", pid, "ok", NoStr, <<VerifyReason(image)>>, TRUE)
    /\ UNCHANGED <<dash, pipeline, emr_file, pharm_file, clock, h_emr_ids, h_rejected, req>>

VerifyPatientFace(pid, image) ==
    /\ IF image = "undecodable"
          THEN /\ authorized' = authorized
               /\ resp' = Response("verify_patient_face", pid, "ok", NoStr, <<VerifyReason(image)>>, FALSE)
          ELSE /\ authorized' = AuthorizePatient(authorized, pid)
               /\ resp' = Response("verify_patient_face", pid, "ok", NoStr, <<VerifyReason(image)>>, TRUE)
    /\ UNCHANGED <<dash, pipeline, emr_file, pharm_file, clock, h_emr_ids, h_rejected, req>>

\* approve_emr as it would be without the gate of lines 1313-1317
ApproveEmr_NoGate(pid, fault) ==
    LET records == LoadStore(emr_file)
        record  == ApprovedRecord(records, pid, clock)
    IN /\ Len(records) < MaxRecs
       /\ emr_file' = WriteStore(emr_file, Append(records, record), fault)
       /\ IF fault = "none"
             THEN /\ resp' = Response("approve_emr", pid, "ok",
                                      record.emr_record_id, <<>>, TRUE)
                  /\ h_emr_ids' = h_emr_ids \cup {record.emr_record_id}
             ELSE /\ resp' = Response("approve_emr", pid, "io_error", NoStr, <<>>, FALSE)
                  /\ h_emr_ids' = h_emr_ids
       /\ UNCHANGED <<dash, pipeline, authorized, pharm_file, clock, h_rejected, req>>

\* POST /approve-emr
ApproveEmr(pid, fault) ==
    IF ~IsPatientAuthorized(authorized, pid)
    THEN /\ resp' = Response("approve_emr", pid, "forbidden", NoStr, <<>>, FALSE)
         /\ h_rejected' = h_rejected \cup {pid}
         /\ UNCHANGED <<dash, pipeline, authorized, emr_file, pharm_file, clock, h_emr_ids, req>>
    ELSE LET records == LoadStore(emr_file)
             record  == ApprovedRecord(records, pid, clock)
         IN /\ Len(records) < MaxRecs
            /\ emr_file' = WriteStore(emr_file, Append(records, record), fault)
            /\ IF fault = "none"
                  THEN /\ resp' = Response("approve_emr", pid, "ok",
                                           record.emr_record_id, <<>>, TRUE)
                       /\ h_emr_ids' = h_emr_ids \cup {record.emr_record_id}
                  ELSE /\ resp' = Response("approve_emr", pid, "io_error", NoStr, <<>>, FALSE)
                       /\ h_emr_ids' = h_emr_ids
            /\ UNCHANGED <<dash, pipeline, authorized, pharm_file, clock, h_rejected, req>>

\* tools.tool_update_emr(payload), payload["patient_id"] = pid
ToolUpdateEmr(pid, fault) ==
    LET record  == ToolEmrRecord(pid, clock)
        records == LoadStore(emr_file)
    IN /\ Len(records) < MaxRecs
       /\ emr_file' = WriteStore(emr_file, Append(records, record), fault)
       /\ IF fault = "none"
             THEN /\ resp' = Response("emr_update", pid, "ok",
                                      record.emr_record_id, <<>>, FALSE)
                  /\ h_emr_ids' = h_emr_ids \cup {record.emr_record_id}
             ELSE /\ resp' = Response("emr_update", pid, "io_error", NoStr, <<>>, FALSE)
                  /\ h_emr_ids' = h_emr_ids

\* POST /emr-update
EmrUpdate(pid, fault) ==
    /\ ToolUpdateEmr(pid, fault)
    /\ UNCHANGED <<dash, pipeline, authorized, pharm_file, clock, h_rejected, req>>

\* tools.tool_send_to_pharmacy(payload): read the collection, append the
\* order, write the collection back
ToolSendToPharmacy(pid, link, fault) ==
    LET orders == LoadStore(pharm_file)
        order  == PharmacyOrder(orders, pid, link, clock)
    IN /\ Len(orders) < MaxOrders
       /\ pharm_file' = WriteStore(pharm_file, Append(orders, order), fault)
       /\ IF fault = "none"
             THEN resp' = Response("send_to_pharmacy", pid, "ok", order.order_id, <<>>, TRUE)
             ELSE resp' = Response("send_to_pharmacy", pid, "io_error", NoStr, <<>>, FALSE)

\* POST /send-to-pharmacy
SendToPharmacy(pid, link, fault) ==
    IF ~IsPatientAuthorized(authorized, pid)
    THEN /\ resp' = Response("send_to_pharmacy", pid, "forbidden", NoStr, <<>>, FALSE)
         /\ h_rejected' = h_rejected \cup {pid}
         /\ UNCHANGED <<dash, pipeline, authorized, emr_file, pharm_file, clock, h_emr_ids, req>>
    ELSE /\ ToolSendToPharmacy(pid, link, fault)
         /\ UNCHANGED <<dash, pipeline, authorized, emr_file, clock, h_emr_ids, h_rejected, req>>

\* get_emr as it would be without the try/except around json.load: the
\* decoding error of an unparsable file reaches the client as a 500
GetEmr_Uncaught(pid) ==
    /\ resp' = IF emr_file.st = "partial"
                  THEN Response("get_emr", pid, "error", NoStr, <<>>, FALSE)
                  ELSE Response("get_emr", pid, "ok", NoStr, QueryStore(emr_file, pid), FALSE)
    /\ UNCHANGED <<dash, pipeline, authorized, emr_file, pharm_file, clock, h_emr_ids, h_rejected, req>>

\* GET /get-emr
GetEmr(pid) ==
    /\ resp' = Response("get_emr", pid, "ok", NoStr, QueryStore(emr_file, pid), FALSE)
    /\ UNCHANGED <<dash, pipeline, authorized, emr_file, pharm_file, clock, h_emr_ids, h_rejected, req>>

\* GET /get-pharmacy-orders
GetPharmacyOrders(pid) ==
    /\ resp' = Response("get_pharmacy_orders", pid, "ok", NoStr,
                        QueryStore(pharm_file, pid), FALSE)
    /\ UNCHANGED <<dash, pipeline, authorized, emr_file, pharm_file, clock, h_emr_ids, h_rejected, req>>

\* POST /trigger-workflow: builds the state for pid and runs the pipeline
TriggerWorkflow(pid) ==
    /\ resp' = Response("trigger_workflow", pid, "ok", NoStr, <<>>, FALSE)
    /\ UNCHANGED <<dash, pipeline, authorized, emr_file, pharm_file, clock, h_emr_ids, h_rejected, req>>

\* POST /audio-workflow: transcribes the upload, then as trigger_workflow
AudioWorkflow(pid) ==
    /\ resp' = Response("audio_workflow", pid, "ok", NoStr, <<>>, FALSE)
    /\ UNCHANGED <<dash, pipeline, authorized, emr_file, pharm_file, clock, h_emr_ids, h_rejected, req>>

\* human_review as it would be if an approval also saved the consultation:
\* tool_update_emr called with the patient of the request
HumanReview_Persisting(pid, approved, comments) ==
    /\ Len(LoadStore(emr_file)) < MaxRecs
    /\ resp' = Response("human_review", pid, "ok", NoStr,
                        <<HilApplyDecision(NewState(pid, <<>>), approved, comments)>>,
                        approved)
    /\ emr_file' = IF approved
                      THEN WriteStore(emr_file,
                                      Append(LoadStore(emr_file), ToolEmrRecord(pid, clock)),
                                      "none")
                      ELSE emr_file
    /\ UNCHANGED <<dash, pipeline, authorized, pharm_file, clock, h_emr_ids, h_rejected, req>>

\* POST /human-review: the decision is applied to a placeholder state built
\* for the request, AgentState(patient_id=...), and that state is returned
HumanReview(pid, approved, comments) ==
    /\ resp' = Response("human_review", pid, "ok", NoStr,
                        <<HilApplyDecision(NewState(pid, <<>>), approved, comments)>>,
                        approved)
    /\ UNCHANGED <<dash, pipeline, authorized, emr_file, pharm_file, clock, h_emr_ids, h_rejected, req>>

\* the emr_record_id a client may send with an order: none, or an id text
\* (the server stores what it is sent, unchecked)
EmrLinks == {NoEmrLink, ApprovedId(<<>>)}

Next ==
    \/ Tick
    \/ \E pid \in Patients, image \in Images : VerifyPatientFace(pid, image)
    \/ \E pid \in Patients, fault \in Faults : ApproveEmr(pid, fault)
    \/ \E pid \in Patients, fault \in Faults : EmrUpdate(pid, fault)
    \/ \E pid \in Patients, link \in EmrLinks, fault \in Faults :
          SendToPharmacy(pid, link, fault)
    \/ \E pid \in Patients : GetEmr(pid)
    \/ \E pid \in Patients : GetPharmacyOrders(pid)
    \/ \E pid \in Patients : TriggerWorkflow(pid)
    \/ \E pid \in Patients : AudioWorkflow(pid)
    \/ \E pid \in Patients, approved \in BOOLEAN, comments \in Comments :
          HumanReview(pid, approved, comments)

Spec == Init /\ [][Next]_vars

\* ---------------------------------------- the handlers, statement by statement
\* Sync (def) endpoints run on the server's thread pool: two requests
\* interleave at every file access. req[w] is the request of thread w: pc is
\* the next statement, now the clock it read, base the file as it loaded it,
\* records its in-memory list.
Busy(w) == req[w].pc \notin {"idle", "done"}

\* approve_emr, lines 1313-1317: the gate
CApproveGate(w, pid) ==
    /\ ~Busy(w)
    /\ req' = [req EXCEPT ![w] =
                 IF IsPatientAuthorized(authorized, pid)
                 THEN [IdleRequest EXCEPT !.pc = "load", !.op = "approve_emr", !.pid = pid]
                 ELSE [IdleRequest EXCEPT !.pc = "done", !.op = "approve_emr", !.pid = pid,
                                          !.status = "forbidden"]]
    /\ UNCHANGED <<dash, pipeline, authorized, emr_file, pharm_file, clock, resp, h_emr_ids, h_rejected>>

\* tool_update_emr, lines 84-88: the record is built before the file is read
CToolBuild(w, pid) ==
    /\ ~Busy(w)
    /\ req' = [req EXCEPT ![w] =
                 [IdleRequest EXCEPT !.pc = "load", !.op = "emr_update", !.pid = pid,
                                     !.now = clock]]
    /\ UNCHANGED <<dash, pipeline, authorized, emr_file, pharm_file, clock, resp, h_emr_ids, h_rejected>>

\* approve_emr 1320-1344, tool_update_emr 91-100: load the collection and
\* append the new record in memory
CLoad(w) ==
    /\ req[w].pc = "load"
    /\ LET records == LoadStore(emr_file)
           record  == IF req[w].op = "approve_emr"
                         THEN ApprovedRecord(records, req[w].pid, clock)
                         ELSE ToolEmrRecord(req[w].pid, req[w].now)
       IN /\ Len(records) < MaxRecs
          /\ req' = [req EXCEPT ![w].pc = "open", ![w].base = emr_file,
                                ![w].records = Append(records, record),
                                ![w].id = record.emr_record_id]
    /\ UNCHANGED <<dash, pipeline, authorized, emr_file, pharm_file, clock, resp, h_emr_ids, h_rejected>>

\* open("w"): truncates the file, or fails and leaves it
COpen(w, fault) ==
    /\ req[w].pc = "open"
    /\ IF fault = "open"
          THEN /\ req' = [req EXCEPT ![w].pc = "done", ![w].status = "io_error"]
               /\ emr_file' = emr_file
          ELSE /\ req' = [req EXCEPT ![w].pc = "dump"]
               /\ emr_file' = PartialFile
    /\ UNCHANGED <<dash, pipeline, authorized, pharm_file, clock, resp, h_emr_ids, h_rejected>>

\* json.dump + close: the text is written from offset 0. "none": the file
\* holds this thread's list. "dump": the write stopped part-way. "tail": the
\* other thread wrote a longer text after this thread's open, and its tail
\* stays behind this thread's text: json.load rejects the file.
DumpOutcomes(w) ==
    {"none", "dump"} \cup (IF emr_file.st = "ok" THEN {"tail"} ELSE {})
CDump(w, outcome) ==
    /\ req[w].pc = "dump"
    /\ outcome \in DumpOutcomes(w)
    /\ emr_file' = WriteStore(emr_file, req[w].records, outcome)
    /\ req' = [req EXCEPT ![w].pc = "done",
                          ![w].status = IF outcome = "dump" THEN "io_error" ELSE "ok"]
    /\ UNCHANGED <<dash, pipeline, authorized, pharm_file, clock, resp, h_emr_ids, h_rejected>>

\* get_emr: one read of the file, then filter and sort in memory
CGetEmr(w, pid) ==
    /\ ~Busy(w)
    /\ req' = [req EXCEPT ![w] =
                 [IdleRequest EXCEPT !.pc = "done", !.op = "get_emr", !.pid = pid,
                                     !.base = emr_file, !.status = "ok",
                                     !.body = QueryStore(emr_file, pid)]]
    /\ UNCHANGED <<dash, pipeline, authorized, emr_file, pharm_file, clock, resp, h_emr_ids, h_rejected>>

\* verify_patient_face is a coroutine of the event loop: one step. The
\* clock is not advanced while requests overlap: what the store handlers do
\* with the list and the file does not read it.
CVerify(pid, image) ==
    /\ authorized' = IF image = "undecodable" THEN authorized
                     ELSE AuthorizePatient(authorized, pid)
    /\ UNCHANGED <<dash, pipeline, emr_file, pharm_file, clock, resp, h_emr_ids, h_rejected, req>>

NextConc ==
    \/ \E pid \in Patients, image \in Images : CVerify(pid, image)
    \/ \E w \in Workers, pid \in Patients : CApproveGate(w, pid)
    \/ \E w \in Workers, pid \in Patients : CToolBuild(w, pid)
    \/ \E w \in Workers : CLoad(w)
    \/ \E w \in Workers, fault \in {"none", "open"} : COpen(w, fault)
    \/ \E w \in Workers, outcome \in {"none", "dump", "tail"} : CDump(w, outcome)
    \/ \E w \in Workers, pid \in Patients : CGetEmr(w, pid)

SpecConc == Init /\ [][NextConc]_vars

\* ------------------------------------------------------ the pipeline run
\* Symptom-Extraction -> Planning -> Prescription-Drafting -> Safety-Check
StageOrder == <<"symptom", "planner", "prescription", "safety">>

\* the chain with the planning stage run before symptom extraction
StageAfter_Swapped(stage) ==
    CASE stage = "start"        -> "planner"
      [] stage = "planner"      -> "symptom"
      [] stage = "symptom"      -> "prescription"
      [] stage = "prescription" -> "safety"
      [] OTHER                  -> "return"

\* the stage the chain runs after a stage has finished
StageAfter(stage) ==
    CASE stage = "start"        -> "symptom"
      [] stage = "symptom"      -> "planner"
      [] stage = "planner"      -> "prescription"
      [] stage = "prescription" -> "safety"
      [] OTHER                  -> "return"

Finished(stage) == [run EXCEPT !.stage = StageAfter(stage), !.stages = Append(run.stages, stage)]

\* trigger_workflow, lines 54-59: a fresh state for the request, handed to
\* run_initial_workflow
StartWorkflow(pid, text) ==
    /\ run.stage = "idle"
    /\ state' = NewState(pid, text)
    /\ run' = [NoRun EXCEPT !.stage = StageAfter("start"), !.n = 1]
    /\ UNCHANGED <<authorized, emr_file, pharm_file, clock, resp, h_emr_ids, h_rejected,
                   req, dash>>

RunSymptomNode ==
    /\ run.stage = "symptom"
    /\ state' = SymptomNode(state)
    /\ run' = Finished("symptom")
    /\ UNCHANGED <<authorized, emr_file, pharm_file, clock, resp, h_emr_ids, h_rejected,
                   req, dash>>

\* planner_node with the hits rag_query_tool returned: it returns the new
\* state, or h["text"].lower() raises and the request ends with a 500
RunPlannerNode(outcome, results) ==
    /\ run.stage = "planner"
    /\ LET hits == RagQueryTool(outcome, results)
       IN IF PlannerRaises(hits)
          THEN /\ state' = state
               /\ run' = [run EXCEPT !.stage = "raised", !.query = PlannerQuery(state),
                                      !.rag = outcome, !.hits = hits]
               /\ resp' = Response("trigger_workflow", state.patient_id, "error",
                                   NoStr, <<>>, FALSE)
          ELSE /\ state' = PlannerNode(state, hits)
               /\ run' = [Finished("planner") EXCEPT !.query = PlannerQuery(state),
                                                      !.rag = outcome, !.hits = hits]
               /\ resp' = resp
    /\ UNCHANGED <<authorized, emr_file, pharm_file, clock, h_emr_ids, h_rejected, req, dash>>

RunPrescriptionNode ==
    /\ run.stage = "prescription"
    /\ state' = PrescriptionNode(state)
    /\ run' = Finished("prescription")
    /\ UNCHANGED <<authorized, emr_file, pharm_file, clock, resp, h_emr_ids, h_rejected,
                   req, dash>>

RunSafetyNode(flags) ==
    /\ run.stage = "safety"
    /\ state' = SafetyNode(state, flags)
    /\ run' = Finished("safety")
    /\ UNCHANGED <<authorized, emr_file, pharm_file, clock, resp, h_emr_ids, h_rejected,
                   req, dash>>

\* trigger_workflow, line 60: the final state is the response
ReturnState ==
    /\ run.stage = "return"
    /\ run' = [run EXCEPT !.stage = "done"]
    /\ resp' = Response("trigger_workflow", state.patient_id, "ok", NoStr, <<state>>, FALSE)
    /\ UNCHANGED <<authorized, emr_file, pharm_file, clock, h_emr_ids, h_rejected, req,
                   dash, state>>

\* run_initial_workflow applied to the state a run returned
RunAgain ==
    /\ run.stage = "done"
    /\ run.n < MaxRuns
    /\ run' = [NoRun EXCEPT !.stage = StageAfter("start"), !.n = run.n + 1, !.prev = state]
    /\ resp' = NoResponse
    /\ UNCHANGED <<authorized, emr_file, pharm_file, clock, h_emr_ids, h_rejected, req,
                   dash, state>>

Transcripts == {T_empty, T_chest_fever, T_fever_chest, T_coughing, T_routine}

NextPipe ==
    \/ \E pid \in Patients, text \in Transcripts : StartWorkflow(pid, text)
    \/ RunSymptomNode
    \/ \E outcome \in RagOutcomes, results \in RagResults : RunPlannerNode(outcome, results)
    \/ RunPrescriptionNode
    \/ \E flags \in SafetyWarnings : RunSafetyNode(flags)
    \/ ReturnState
    \/ RunAgain

SpecPipe == Init /\ [][NextPipe]_vars

\* run_initial_workflow applied to the state a run returned, after the caller
\* replaced its note_summary by an edited note
RunAgainWithNote(text) ==
    /\ run.stage = "done"
    /\ run.n < MaxRuns
    /\ text # state.note_summary
    /\ state' = [state EXCEPT !.note_summary = text]
    /\ run' = [NoRun EXCEPT !.stage = StageAfter("start"), !.n = run.n + 1, !.prev = state]
    /\ resp' = NoResponse
    /\ UNCHANGED <<authorized, emr_file, pharm_file, clock, h_emr_ids, h_rejected, req, dash>>

\* repeated runs on one state, the note edited or not between them
NextEdit ==
    \/ NextPipe
    \/ \E text \in Transcripts : RunAgainWithNote(text)

SpecEdit == Init /\ [][NextEdit]_vars

\* applyReviewDecision(state, approved, comments) on the state a run returned
ApplyReviewDecision(approved, comments) ==
    /\ run.stage = "done"
    /\ Len(state.executed_actions) < MaxReviews
    /\ state' = HilApplyDecision(state, approved, comments)
    /\ resp' = Response("human_review", state.patient_id, "ok", NoStr, <<state'>>, approved)
    /\ UNCHANGED <<authorized, emr_file, pharm_file, clock, h_emr_ids, h_rejected, req,
                   dash, run>>

\* pipeline runs and review decisions on one state, in any sequence
NextReview ==
    \/ NextPipe
    \/ \E approved \in BOOLEAN, comments \in Comments : ApplyReviewDecision(approved, comments)

SpecReview == Init /\ [][NextReview]_vars

\* ------------------------------------------------------ the dashboard page
\* The page's script: patientIdInput.value (pid, "none" when empty),
\* patientVerified, currentSlide, currentState, lastApprovedEmrId, and the
\* answers of the requests the page has sent and not handled yet (verify,
\* workflow, approve). A slide's buttons can be clicked while the slide is
\* the active one (.slide is display: none); the patient id field is in the
\* header. changed is history: the ids the operator changed away from while
\* the server held them authorized, and that no verification has authorized
\* since. saved is history: <<emr_record_id, patient_id>> of every approval
\* of the page that approve_emr answered with ok.
PatientIds == Patients \cup {"none"}

\* patientIdInput "input" listener: the field now holds pid
DashInput(pid) ==
    /\ pid \in PatientIds
    /\ pid # dash.pid
    /\ dash' = [dash EXCEPT !.pid = pid,
                            !.patientVerified = FALSE,
                            !.currentSlide = 1,
                            !.lastApprovedEmrId = <<>>,
                            !.changed = @ \cup ({dash.pid} \cap authorized)]
    /\ resp' = NoResponse
    /\ UNCHANGED <<pipeline, authorized, emr_file, pharm_file, clock, h_emr_ids, h_rejected, req>>

\* goNext: from slide 1 only when patientVerified; slide 3 goes back to 1
GoNext ==
    /\ dash.currentSlide = 1 => dash.patientVerified
    /\ dash' = [dash EXCEPT !.currentSlide = IF @ = 3 THEN 1 ELSE @ + 1]
    /\ resp' = NoResponse
    /\ UNCHANGED <<pipeline, authorized, emr_file, pharm_file, clock, h_emr_ids, h_rejected, req>>

\* goPrev (btnPrev is disabled on slide 1)
GoPrev ==
    /\ dash.currentSlide > 1
    /\ dash' = [dash EXCEPT !.currentSlide = @ - 1]
    /\ resp' = NoResponse
    /\ UNCHANGED <<pipeline, authorized, emr_file, pharm_file, clock, h_emr_ids, h_rejected, req>>

\* btnVerifyFace.onclick up to its await: the frame is posted for the id in
\* the field and verify_patient_face handles it
DashVerifyClick(image) ==
    /\ dash.currentSlide = 1
    /\ dash.pid # "none"
    /\ dash.verify = "none"
    /\ IF image = "undecodable"
          THEN /\ authorized' = authorized
               /\ resp' = Response("verify_patient_face", dash.pid, "ok", NoStr,
                                   <<VerifyReason(image)>>, FALSE)
               /\ dash' = [dash EXCEPT !.verify = "refused"]
          ELSE /\ authorized' = AuthorizePatient(authorized, dash.pid)
               /\ resp' = Response("verify_patient_face", dash.pid, "ok", NoStr,
                                   <<VerifyReason(image)>>, TRUE)
               /\ dash' = [dash EXCEPT !.verify = "authorized", !.changed = @ \ {dash.pid}]
    /\ UNCHANGED <<pipeline, emr_file, pharm_file, clock, h_emr_ids, h_rejected, req>>

\* btnVerifyFace.onclick after its await: patientVerified = json.authorized
DashVerifyResponse ==
    /\ dash.verify # "none"
    /\ dash' = [dash EXCEPT !.patientVerified = (dash.verify = "authorized"),
                            !.verify = "none"]
    /\ resp' = NoResponse
    /\ UNCHANGED <<pipeline, authorized, emr_file, pharm_file, clock, h_emr_ids, h_rejected, req>>

\* runWorkflowWithTranscript / btnRunAudio.onclick up to the await: the
\* request is posted for the id in the field; the server answers with the
\* state of a run for that id, or with an error when a stage raised
WorkflowStatuses == {"ok", "error"}
DashRunWorkflowClick(status) ==
    /\ dash.currentSlide = 2
    /\ dash.patientVerified
    /\ dash.pid # "none"
    /\ dash.workflow.st = "none"
    /\ dash' = [dash EXCEPT !.workflow =
                   [NoAnswer EXCEPT !.st = status,
                                    !.state = IF status = "ok" THEN WorkflowState(dash.pid)
                                              ELSE NoWorkflowState]]
    /\ resp' = Response("trigger_workflow", dash.pid, status, NoStr, <<>>, FALSE)
    /\ UNCHANGED <<pipeline, authorized, emr_file, pharm_file, clock, h_emr_ids, h_rejected, req>>

\* ... after the await: currentState = json.state; currentSlide = 3, or the
\* catch when the answer is not ok
DashWorkflowResponse ==
    /\ dash.workflow.st # "none"
    /\ dash' = IF dash.workflow.st = "ok"
                  THEN [dash EXCEPT !.currentState = dash.workflow.state,
                                    !.currentSlide = 3,
                                    !.workflow = NoAnswer]
                  ELSE [dash EXCEPT !.workflow = NoAnswer]
    /\ resp' = NoResponse
    /\ UNCHANGED <<pipeline, authorized, emr_file, pharm_file, clock, h_emr_ids, h_rejected, req>>

\* the fields of the /approve-emr body the page takes from currentState and
\* the edit boxes renderState filled from it
ApprovedContent(s) ==
    [note_summary |-> s.note_summary, symptoms |-> s.symptoms,
     draft_prescription |-> s.draft_prescription]

\* btnApproveEmr.onclick up to its await: patient_id is the id in the field,
\* the content is that of currentState; approve_emr handles the request
DashApproveClick(fault) ==
    /\ dash.currentSlide = 3
    /\ dash.patientVerified
    /\ dash.pid # "none"
    /\ dash.currentState # NoWorkflowState
    /\ dash.approve.st = "none"
    /\ IF ~IsPatientAuthorized(authorized, dash.pid)
       THEN /\ resp' = Response("approve_emr", dash.pid, "forbidden", NoStr, <<>>, FALSE)
            /\ h_rejected' = h_rejected \cup {dash.pid}
            /\ dash' = [dash EXCEPT !.approve = [NoAnswer EXCEPT !.st = "forbidden"]]
            /\ UNCHANGED <<emr_file, h_emr_ids>>
       ELSE LET records == LoadStore(emr_file)
                record  == ApprovedContent(dash.currentState)
                               @@ ApprovedRecord(records, dash.pid, clock)
            IN /\ Len(records) < MaxRecs
               /\ emr_file' = WriteStore(emr_file, Append(records, record), fault)
               /\ IF fault = "none"
                     THEN /\ resp' = Response("approve_emr", dash.pid, "ok",
                                              record.emr_record_id, <<>>, TRUE)
                          /\ h_emr_ids' = h_emr_ids \cup {record.emr_record_id}
                          /\ dash' = [dash EXCEPT !.approve =
                                         [NoAnswer EXCEPT !.st = "ok",
                                                          !.id = record.emr_record_id],
                                                  !.saved = @ \cup
                                                     {<<record.emr_record_id, dash.pid>>}]
                     ELSE /\ resp' = Response("approve_emr", dash.pid, "io_error",
                                              NoStr, <<>>, FALSE)
                          /\ h_emr_ids' = h_emr_ids
                          /\ dash' = [dash EXCEPT !.approve =
                                         [NoAnswer EXCEPT !.st = "io_error"]]
               /\ h_rejected' = h_rejected
    /\ UNCHANGED <<pipeline, authorized, pharm_file, clock, req>>

\* ... after the await: lastApprovedEmrId = json.emr_record_id, or the catch
DashApproveResponse ==
    /\ dash.approve.st # "none"
    /\ dash' = IF dash.approve.st = "ok"
                  THEN [dash EXCEPT !.lastApprovedEmrId = dash.approve.id,
                                    !.approve = NoAnswer]
                  ELSE [dash EXCEPT !.approve = NoAnswer]
    /\ resp' = NoResponse
    /\ UNCHANGED <<pipeline, authorized, emr_file, pharm_file, clock, h_emr_ids, h_rejected, req>>

\* btnSendPharmacy.onclick: the order is posted for the id in the field with
\* emr_record_id = lastApprovedEmrId; send_to_pharmacy handles the request
\* (the answer changes no variable of the script)
DashSendPharmacy(fault) ==
    /\ dash.currentSlide = 3
    /\ dash.patientVerified
    /\ dash.pid # "none"
    /\ dash.currentState # NoWorkflowState
    /\ dash.lastApprovedEmrId # <<>>
    /\ IF ~IsPatientAuthorized(authorized, dash.pid)
       THEN /\ resp' = Response("send_to_pharmacy", dash.pid, "forbidden", NoStr, <<>>, FALSE)
            /\ h_rejected' = h_rejected \cup {dash.pid}
            /\ pharm_file' = pharm_file
       ELSE /\ ToolSendToPharmacy(dash.pid, dash.lastApprovedEmrId, fault)
            /\ h_rejected' = h_rejected
    /\ UNCHANGED <<dash, pipeline, authorized, emr_file, clock, h_emr_ids, req>>

\* the page and the server: the page's verification, and POST /approve-emr
\* from any client of the server
NextDash ==
    \/ \E pid \in PatientIds : DashInput(pid)
    \/ \E image \in Images : DashVerifyClick(image)
    \/ DashVerifyResponse
    \/ \E pid \in Patients, fault \in Faults : ApproveEmr(pid, fault)

SpecDash == Init /\ [][NextDash]_vars

\* the frame the page posts is the JPEG canvas.toBlob encoded: it decodes
Frames == Images \ {"undecodable"}

\* the page alone: every request the server handles is one the page sent
NextPage ==
    \/ \E pid \in PatientIds : DashInput(pid)
    \/ GoNext
    \/ GoPrev
    \/ \E image \in Frames : DashVerifyClick(image)
    \/ DashVerifyResponse
    \/ \E status \in WorkflowStatuses : DashRunWorkflowClick(status)
    \/ DashWorkflowResponse
    \/ \E fault \in Faults : DashApproveClick(fault)
    \/ DashApproveResponse
    \/ \E fault \in Faults : DashSendPharmacy(fault)

SpecPage == Init /\ [][NextPage]_vars

\* ================================================================ claims
StoreWriteOps == {"approve_emr", "send_to_pharmacy", "emr_update"}
GatedWriteOps == {"approve_emr", "send_to_pharmacy"}
EmrAppendOps == {"approve_emr", "emr_update"}
QueryOps == {"get_emr", "get_pharmacy_orders"}
QueriedFile == IF resp.op = "get_emr" THEN emr_file ELSE pharm_file
LastOf(file) == file.recs[Len(file.recs)]
LastOfLog(s) == s.audit_log[Len(s.audit_log)]

\* C1: no operation writes a record for patient p into the EMR or the
\* pharmacy store unless p is authorized at the time of the write: approve_emr,
\* send_to_pharmacy and emr_update all refuse an unauthorized identity with a
\* permission error. (The mapping only grows, so "authorized at the time of
\* the request" is "authorized in the state the response is given in".)
C1_WritesOnlyForAuthorized ==
    (resp.op \in StoreWriteOps /\ ~IsPatientAuthorized(authorized, resp.pid))
        => resp.status = "forbidden"

\* C2: approve_emr / send_to_pharmacy for an identity that is not authorized
\* is rejected; once verify_patient_face has authorized the identity the same
\* request is no longer rejected: it succeeds, its record being the last of
\* the store, whenever the write of the file completes.
C2_RejectedThenSucceeds ==
    resp.op \in GatedWriteOps =>
        LET file == IF resp.op = "approve_emr" THEN emr_file ELSE pharm_file
        IN IF ~IsPatientAuthorized(authorized, resp.pid)
           THEN resp.status = "forbidden"
           ELSE /\ resp.status \in {"ok", "io_error"}
                /\ resp.status = "ok" =>
                      /\ file.st = "ok"
                      /\ file.recs # <<>>
                      /\ LastOf(file).patient_id = resp.pid
                      /\ resp.id = IF resp.op = "approve_emr"
                                      THEN LastOf(file).emr_record_id
                                      ELSE LastOf(file).order_id

\* C2 witness: an approval that succeeded for an identity some earlier
\* request was refused for
C2_Witness ==
    /\ resp.op = "approve_emr"
    /\ resp.status = "ok"
    /\ resp.pid \in h_rejected
    /\ LastOf(emr_file).patient_id = resp.pid

\* C3: absent concurrent writers, every append to the EMR store returns an
\* identifier strictly greater, in display order, than every identifier the
\* store returned before.
C3_IdsStrictlyIncrease ==
    [][(resp'.op \in EmrAppendOps /\ resp'.status = "ok")
          => \A i \in h_emr_ids : StrLess(i, resp'.id)]_vars

\* C4: the stores are append-only: a record once persisted stays in the
\* store, at its place and with its content, in every later state.
IsPrefixOf(a, b) == Len(a) <= Len(b) /\ SubSeq(b, 1, Len(a)) = a
C4_AppendOnly ==
    [][/\ IsPrefixOf(emr_file.recs, emr_file'.recs)
       /\ IsPrefixOf(pharm_file.recs, pharm_file'.recs)]_vars

\* C5: two appends that overlap, each reading the whole collection, appending
\* in memory and writing the whole collection back without a lock, can read
\* the same prior collection: both then answer ok, two approvals with the same
\* identifier, and the store does not hold both records: it holds at most the
\* prior collection plus one record, one fewer than the appends that succeeded.
BothAppended(v, w) ==
    /\ v # w
    /\ req[v].pc = "done" /\ req[w].pc = "done"
    /\ req[v].op \in EmrAppendOps /\ req[w].op \in EmrAppendOps
    /\ req[v].status = "ok" /\ req[w].status = "ok"
    /\ Len(LoadStore(req[v].base)) = Len(LoadStore(req[w].base))
C5_LostUpdate ==
    \A v, w \in Workers :
        BothAppended(v, w) =>
            /\ (req[v].op = "approve_emr" /\ req[w].op = "approve_emr")
                  => req[v].id = req[w].id
            /\ Len(LoadStore(emr_file)) <= Len(LoadStore(req[v].base)) + 1
            /\ emr_file.st = "ok" => emr_file.recs \in {req[v].records, req[w].records}

\* C5 witness: two approvals read the same one-record collection, both
\* answered ok with the same identifier, and the store holds two records
C5_Witness ==
    \E v, w \in Workers :
        /\ BothAppended(v, w)
        /\ req[v].op = "approve_emr" /\ req[w].op = "approve_emr"
        /\ req[v].pid # req[w].pid
        /\ req[v].base = req[w].base
        /\ Len(LoadStore(req[v].base)) = 1
        /\ req[v].id = req[w].id
        /\ emr_file = OkFile(req[w].records)
        /\ Len(emr_file.recs) = 2

\* C6: the collection is replaced atomically: a query that reads the file
\* while an append is between its open and the end of its dump gets the
\* answer of the complete prior collection or of the complete new one, never
\* that of an empty or partial file.
C6_QuerySeesSnapshot ==
    \A v, w \in Workers :
        (/\ v # w
         /\ req[v].pc = "dump"
         /\ req[w].pc = "done" /\ req[w].op = "get_emr"
         /\ req[w].base = emr_file)
            => req[w].body \in {QueryStore(req[v].base, req[w].pid),
                               QueryStore(OkFile(req[v].records), req[w].pid)}

\* the instant an ISO text of either form denotes
DigitsVal(s) ==
    LET RECURSIVE val(_, _)
        val(i, acc) == IF i > Len(s) THEN acc ELSE val(i + 1, 10 * acc + (s[i] - 48))
    IN val(1, 0)

ParseIso(s) ==
    [sec   |-> DigitsVal(SubSeq(s, 1, 2)),
     micro |-> IF Len(s) >= 9 /\ s[3] = 46 THEN DigitsVal(SubSeq(s, 4, 9)) ELSE 0]

\* C7: a query returns exactly the stored records of the patient asked for,
\* none of another patient, newest first: the instants of the timestamps are
\* non-increasing along the result.
CountOf(records, pid) == Cardinality({i \in DOMAIN records : records[i].patient_id = pid})
C7_QueryFilteredSorted ==
    resp.op \in QueryOps =>
        LET stored == LoadStore(QueriedFile)
            body   == resp.body
        IN /\ \A i \in DOMAIN body : body[i].patient_id = resp.pid
           /\ \A i \in DOMAIN body : \E k \in DOMAIN stored : stored[k] = body[i]
           /\ \A k \in DOMAIN stored :
                 stored[k].patient_id = resp.pid => \E i \in DOMAIN body : body[i] = stored[k]
           /\ Len(body) = CountOf(stored, resp.pid)
           /\ \A i, j \in DOMAIN body :
                 i < j => InstantLeq(ParseIso(body[j].timestamp_utc),
                                     ParseIso(body[i].timestamp_utc))

\* C8: a query of a store that is missing, empty or unparsable answers with
\* an empty sequence, not with an error, and no query changes a store.
C8_QueryOfUnreadableStore ==
    [][resp'.op \in QueryOps =>
          /\ emr_file' = emr_file
          /\ pharm_file' = pharm_file
          /\ LET file == IF resp'.op = "get_emr" THEN emr_file ELSE pharm_file
             IN (file.st # "ok" \/ file.recs = <<>>)
                   => (resp'.status = "ok" /\ resp'.body = <<>>)]_vars

\* C8 witness: get_emr answered while the EMR file was unparsable
C8_Witness ==
    /\ resp.op = "get_emr"
    /\ emr_file.st = "partial"
    /\ resp.status = "ok"
    /\ resp.body = <<>>

\* C9: the gate arbitrates reads: get_emr / get_pharmacy_orders return
\* records of patient p only when p is authorized.
C9_ReadsOnlyForAuthorized ==
    (resp.op \in QueryOps /\ resp.body # <<>>)
        => IsPatientAuthorized(authorized, resp.pid)

\* C10: the pipeline is run for patient p (trigger_workflow, audio_workflow)
\* only when p is authorized.
C10_PipelineOnlyForAuthorized ==
    (resp.op \in {"trigger_workflow", "audio_workflow"} /\ resp.status = "ok")
        => IsPatientAuthorized(authorized, resp.pid)

\* C11: when the operator changes the active patient id, the authorization of
\* the identity verified before is reset: an approve_emr for that identity
\* after the change is refused until the identity is verified again.
C11_ChangeResetsAuthorization ==
    (resp.op = "approve_emr" /\ resp.pid \in dash.changed) => resp.status = "forbidden"

\* C12: is_patient_authorized is false for every identity at the start;
\* verify_patient_face is the only operation that changes the mapping, and it
\* changes at most the flag of the patient id it was called for, to true.
C12_MappingFrame ==
    /\ \A q \in Patients : ~IsPatientAuthorized(authorized, q)
    /\ [][/\ authorized \subseteq authorized'
          /\ \A q \in Patients :
                (IsPatientAuthorized(authorized', q) /\ ~IsPatientAuthorized(authorized, q))
                    => (resp'.op = "verify_patient_face" /\ resp'.pid = q /\ resp'.flag)
          /\ (resp'.op = "verify_patient_face" /\ resp'.flag)
                => IsPatientAuthorized(authorized', resp'.pid)]_vars

\* C12 witness: one identity is authorized by a verification while the other,
\* never verified, is not
C12_Witness ==
    /\ resp.op = "verify_patient_face"
    /\ resp.flag
    /\ IsPatientAuthorized(authorized, resp.pid)
    /\ \E q \in Patients : q # resp.pid /\ ~IsPatientAuthorized(authorized, q)

\* the audit entries the current run has appended to the state
RunLog == SubSeq(state.audit_log, Len(run.prev.audit_log) + 1, Len(state.audit_log))
StageNames == {StageOrder[i] : i \in DOMAIN StageOrder}

C15_RerunReplaces ==
    (run.stage = "done" /\ run.n = 2) =>
        /\ Len(state.audit_log) = 2 * Len(run.prev.audit_log)
        /\ state.raw_transcript = run.prev.raw_transcript
        /\ state.note_summary = run.prev.note_summary
        /\ run.hits = run.prev.guideline_hits
              => state.suggested_tests = run.prev.suggested_tests

\* C15 witness: both runs got the same hits and suggested tests
C15_Witness ==
    /\ run.stage = "done"
    /\ run.n = 2
    /\ run.hits = run.prev.guideline_hits
    /\ state.suggested_tests # <<>>
    /\ state.suggested_tests = run.prev.suggested_tests
    /\ Len(state.audit_log) = 8

\* the lower-cased text the stages of the current state work on
RunText == Lower(WorkingText(state, <<>>))
CountIn(x, items) == Cardinality({i \in DOMAIN items : items[i] = x})
NoDuplicates(items) == \A i, j \in DOMAIN items : items[i] = items[j] => i = j

\* C16: when the working text contains a phrase of the symptom table, the
\* symptoms sequence after Symptom-Extraction holds the phrase's canonical
\* label exactly once: however often the phrase is repeated, however many
\* phrases of the label match, and whether or not an earlier run had added it.
C16_LabelExactlyOnce ==
    run.stages # <<>> =>
        \A k \in DOMAIN SYMPTOM_KEYWORDS :
            Contains(RunText, SYMPTOM_KEYWORDS[k][1])
                => CountIn(SYMPTOM_KEYWORDS[k][2], state.symptoms) = 1

\* C16 witness: the second Symptom-Extraction on a text that repeats "cough",
\* holds "coughing" and names chest pain by two phrases
C16_Witness ==
    /\ run.n = 2
    /\ run.stages # <<>>
    /\ state.note_summary = T_coughing
    /\ InList(L_cough, run.prev.symptoms)
    /\ CountIn(L_cough, state.symptoms) = 1
    /\ CountIn(L_chest_pain, state.symptoms) = 1

\* the first place sub occurs at in text (0 when it does not occur)
FirstPos(text, sub) ==
    IF Contains(text, sub)
    THEN CHOOSE i \in 1..Len(text) :
            /\ SubSeq(text, i, i + Len(sub) - 1) = sub
            /\ \A j \in 1..(i - 1) : SubSeq(text, j, j + Len(sub) - 1) # sub
    ELSE 0

\* the first place a phrase of the label occurs at in text
LabelPos(text, label) ==
    LET places == {FirstPos(text, SYMPTOM_KEYWORDS[k][1]) :
                      k \in {k \in DOMAIN SYMPTOM_KEYWORDS :
                                /\ SYMPTOM_KEYWORDS[k][2] = label
                                /\ Contains(text, SYMPTOM_KEYWORDS[k][1])}}
    IN CHOOSE m \in places : \A o \in places : m <= o

\* C17: on a state with no prior symptoms, Symptom-Extraction lists the
\* labels in the order of their first appearance in the text.
C17_OrderOfFirstAppearance ==
    (run.n = 1 /\ run.stages # <<>>) =>
        \A i, j \in DOMAIN state.symptoms :
            i < j => LabelPos(RunText, state.symptoms[i]) < LabelPos(RunText, state.symptoms[j])

\* where a test token first occurs in the hits: <<hit, place in the hit>>
TokenPlace(hits, token) ==
    LET h == CHOOSE h \in DOMAIN hits :
                /\ Contains(Lower(hits[h].text), Lower(token))
                /\ \A g \in 1..(h - 1) : ~Contains(Lower(hits[g].text), Lower(token))
    IN <<h, FirstPos(Lower(hits[h].text), Lower(token))>>
PlaceBefore(a, b) == a[1] < b[1] \/ (a[1] = b[1] /\ a[2] < b[2])

\* the tokens of the vocabulary that occur in some hit, and those listed
MatchedTokens(hits) ==
    {Upper(Candidates[c]) : c \in {c \in DOMAIN Candidates :
        \E h \in DOMAIN hits : Contains(Lower(hits[h].text), Candidates[c])}}
ListedTokens(tests) == {tests[i] : i \in DOMAIN tests}

\* C18: after Planning, suggested_tests holds the upper-case forms of the
\* vocabulary tokens that occur in the hits, each once, in the order of their
\* first occurrence in the hits: "ECG" before "CBC" when the hits mention ECG
\* first, in separate hits or in one.
C18_TestsInFirstOccurrenceOrder ==
    Len(run.stages) >= 2 =>
        /\ ListedTokens(state.suggested_tests) = MatchedTokens(state.guideline_hits)
        /\ NoDuplicates(state.suggested_tests)
        /\ \A i, j \in DOMAIN state.suggested_tests :
              i < j => PlaceBefore(TokenPlace(state.guideline_hits, state.suggested_tests[i]),
                                   TokenPlace(state.guideline_hits, state.suggested_tests[j]))

\* C19: a run on an empty transcript completes without a stage raising:
\* symptoms stays empty, the query sent to retrieval is built from
\* "unspecified symptoms", suggested_tests is empty and the run returns with
\* 4 audit entries.
C19_EmptyTranscriptRun ==
    (run.n = 1 /\ state.raw_transcript = <<>> /\ state.note_summary = <<>>) =>
        /\ run.stage # "raised"
        /\ state.symptoms = <<>>
        /\ Len(run.stages) >= 2 =>
              /\ Contains(run.query, UnspecifiedSymptoms)
              /\ state.suggested_tests = <<>>
        /\ run.stage = "done" => Len(state.audit_log) = 4

\* C20: a Planning run replaces guideline_hits by the hits it got and
\* suggested_tests by the tokens of those hits: whatever the two fields held
\* before, nothing of it is kept unless this run's hits give it again.
C20_PlanningReplaces ==
    [][(Len(run'.stages) = Len(run.stages) + 1 /\ run'.stages[Len(run'.stages)] = "planner")
          => /\ state'.guideline_hits = run'.hits
             /\ ListedTokens(state'.suggested_tests) = MatchedTokens(run'.hits)
             /\ NoDuplicates(state'.suggested_tests)]_vars

\* C20 witness: a second Planning run has dropped a test the first run
\* suggested
C20_Witness ==
    /\ run.n = 2
    /\ Len(run.stages) >= 2
    /\ \E i \in DOMAIN run.prev.suggested_tests :
          ~InList(run.prev.suggested_tests[i], state.suggested_tests)

\* C21: when retrieval fails inside rag_query_tool (no search(), or an
\* exception anywhere in its try block), the tool returns [] and Planning
\* ends with empty guideline_hits and empty suggested_tests, appends its one
\* audit entry, and hands the state to the next stage: no error response.
C21_RetrievalFailureDegrades ==
    [][(run.stage = "planner" /\ run'.rag \in {"no_search", "exception"})
          => /\ run'.hits = <<>>
             /\ state'.guideline_hits = <<>>
             /\ state'.suggested_tests = <<>>
             /\ Len(state'.audit_log) = Len(state.audit_log) + 1
             /\ IsPrefixOf(state.audit_log, state'.audit_log)
             /\ LastOfLog(state') = AuditEntry("planner", <<>>)
             /\ run'.stage = "prescription"
             /\ resp'.status # "error"]_vars

\* C21 witness: the retrieval of a second run raised after the search had
\* given results; the run returned, the tests of the first run gone
C21_Witness ==
    /\ run.stage = "done"
    /\ run.n = 2
    /\ run.rag = "exception"
    /\ run.prev.suggested_tests # <<>>
    /\ state.guideline_hits = <<>>
    /\ state.suggested_tests = <<>>
    /\ Len(state.audit_log) = 8

\* C22: stage-internal errors never escape the pipeline: for every state and
\* every hit sequence rag_query_tool can return, a hit with no text included,
\* symptom_node and planner_node return, no run ends in a raised exception
\* and the request is not answered with an error.
C22_NoStageRaises ==
    /\ run.stage # "raised"
    /\ resp.op = "trigger_workflow" => resp.status = "ok"

\* C23: audit_log is append-only: across every stage execution and every
\* review decision on a state, the log before the operation is a beginning of
\* the log after it: no entry dropped, moved or rewritten; a stage that
\* finished and a decision each add exactly one entry.
C23_AuditLogAppendOnly ==
    [][/\ IsPrefixOf(state.audit_log, state'.audit_log)
       /\ (Len(run'.stages) = Len(run.stages) + 1 \/ resp'.op = "human_review")
             => Len(state'.audit_log) = Len(state.audit_log) + 1]_vars

\* C23 witness: a decision was applied between two runs and one after them:
\* the entries of the first run, the decision, the second run, the decision
C23_Witness ==
    /\ run.stage = "done"
    /\ run.n = 2
    /\ Len(state.audit_log) = 10
    /\ state.audit_log[5].node = "review"
    /\ state.audit_log[6].node = "symptom"
    /\ state.audit_log[10].node = "review"
    /\ SubSeq(state.audit_log, 1, 4) = SubSeq(run.prev.audit_log, 1, 4)

\* C24: symptoms only grows across repeated runs on one state: no step
\* removes or moves a label; after every Symptom-Extraction the deduplicated
\* prior sequence is a beginning of the new one and the new one has no
\* duplicates; and a re-run on the text the previous run worked on leaves
\* symptoms as it was.
C24_SymptomsMonotonic ==
    [][/\ IsPrefixOf(state.symptoms, state'.symptoms)
       /\ (run.stage = "symptom" /\ run'.stage # "symptom")
             => /\ IsPrefixOf(Dedupe(state.symptoms), state'.symptoms)
                /\ NoDuplicates(state'.symptoms)
                /\ (run.n >= 2 /\ WorkingText(state, <<>>) = WorkingText(run.prev, <<>>))
                      => state'.symptoms = state.symptoms]_vars

\* C24 witness: the second run worked on an edited note and added a label
\* behind the two labels the first run had found
C24_Witness ==
    /\ run.n = 2
    /\ run.stages # <<>>
    /\ state.note_summary # run.prev.note_summary
    /\ Len(run.prev.symptoms) = 2
    /\ Len(state.symptoms) = 3
    /\ SubSeq(state.symptoms, 1, 2) = run.prev.symptoms

\* C25: applying a review decision records the decision in the state only:
\* the EMR store and the pharmacy store are left as they were, no stage of the
\* pipeline is run (the state returned carries the decision and its audit
\* entry and nothing a stage would have written), and a store changes only in
\* a step of one of the append operations.
C25_ReviewDoesNotPersist ==
    [][/\ resp'.op = "human_review"
             => /\ emr_file' = emr_file
                /\ pharm_file' = pharm_file
                /\ authorized' = authorized
                /\ state' = state
                /\ run' = run
                /\ LET s == resp'.body[1]
                   IN /\ s.patient_id = resp'.pid
                      /\ s.executed_actions = <<Decision(resp'.flag, "ok")>>
                      /\ s.audit_log = <<AuditEntry("review", Decision(resp'.flag, "ok"))>>
                      /\ s.symptoms = <<>>
                      /\ s.suggested_tests = <<>>
                      /\ s.guideline_hits = <<>>
                      /\ s.draft_prescription = <<>>
                      /\ s.safety_flags = <<>>
       /\ (emr_file' # emr_file \/ pharm_file' # pharm_file)
             => resp'.op \in StoreWriteOps]_vars

\* C25 witness: an approving decision was answered while both stores held a
\* record; the EMR store holds no record for the decision
C25_Witness ==
    /\ resp.op = "human_review"
    /\ resp.flag
    /\ emr_file.st = "ok"
    /\ Len(emr_file.recs) = 1
    /\ pharm_file.st = "ok"
    /\ Len(pharm_file.recs) = 1
    /\ Len(resp.body[1].executed_actions) = 1

\* C26: verify_patient_face authorizes the patient_id exactly when the
\* upload decodes: whether a face was detected, none was, or the detector did
\* not load, the answer is authorized = true and the id is in the mapping; an
\* upload that does not decode is answered authorized = false and the mapping
\* is left as it was, an earlier authorization of the id included.
C26_AuthorizedIffDecodes ==
    [][resp'.op = "verify_patient_face"
          => IF resp'.body[1] = DecodeFailed
             THEN /\ ~resp'.flag
                  /\ authorized' = authorized
             ELSE /\ resp'.flag
                  /\ authorized' = authorized \cup {resp'.pid}]_vars

\* C26 witness: an upload that did not decode, sent for an identity an
\* earlier upload had authorized: refused, and the identity still authorized
C26_Witness ==
    /\ resp.op = "verify_patient_face"
    /\ resp.body = <<DecodeFailed>>
    /\ ~resp.flag
    /\ IsPatientAuthorized(authorized, resp.pid)

\* C27: a pharmacy order is created only after the consultation was
\* approved: every order send_to_pharmacy persists for patient p links the
\* emr_record_id of an approval approve_emr answered with ok for the same p,
\* also when approvals and changes of the patient id interleave on the page.
C27_OrderAfterApproval ==
    [][(resp'.op = "send_to_pharmacy" /\ resp'.status = "ok")
          => /\ LastOf(pharm_file').patient_id = resp'.pid
             /\ <<LastOf(pharm_file').emr_record_id, resp'.pid>> \in dash.saved]_vars

\* C28: steps 2 and 3 of the stepper are reachable only for a verified
\* patient: in every state of the page currentSlide in {2, 3} implies
\* patientVerified.
C28_StepsNeedVerified ==
    dash.currentSlide \in {2, 3} => dash.patientVerified

\* C29: patientVerified is true only if the server has authorized the id the
\* patient-id field shows: the answer to a verification sent under an earlier
\* id never marks the id shown now as verified.
C29_VerifiedIsAuthorized ==
    dash.patientVerified
        => (dash.pid # "none" /\ IsPatientAuthorized(authorized, dash.pid))

\* C30: an EMR record saved by the page's Approve for patient p carries the
\* note, symptoms and prescription of a pipeline run made for p: once the
\* patient id is changed, what the run of the earlier patient produced is not
\* stored under the new id.
C30_RecordContentOfSamePatient ==
    \A i \in DOMAIN emr_file.recs :
        ApprovedContent(emr_file.recs[i])
            = ApprovedContent(WorkflowState(emr_file.recs[i].patient_id))

====
